---- MODULE Spec2Model ----
(***************************************************************************)
(* KYC risk plugin (src/plugins/kyc_risk_plugin.py) and its demo loop      *)
(* (src/main.py).                                                          *)
(*                                                                         *)
(* A Python str is a sequence of code points.  A code point is written as  *)
(* a one-element TLA+ string: a printable ASCII character as itself, any   *)
(* other code point as "U+XXXX".  The status strings of the plugin carry   *)
(* their severity as a leading emoji:                                      *)
(*   U+2705 (check mark)  U+274C (cross mark)  U+26A0 U+FE0F (warning      *)
(*   sign + variation selector)  U+1F6A8 (police light).                   *)
(***************************************************************************)
EXTENDS Naturals, Sequences, FiniteSets

VARIABLES
    document_text,    \* argument last given to validate_id_document
    full_name,        \* argument last given to screen_against_sanctions
    behavior_data,    \* argument last given to assess_behavioral_risk
    doc_result,       \* main: doc_result.return_value
    sanction_result,  \* main: sanction_result.return_value
    behavior_result,  \* main: behavior_result.return_value
    red_flags,        \* combine_risk_signals: [id_status, sanctions_status, behavior_status]
    combined,         \* main: combined.return_value
    ncombine,         \* number of combine_risk_signals invocations so far
    pc,               \* main: position of the chat loop
    stdin,            \* the lines the user will type
    nread,            \* number of lines input() has returned
    stdout,           \* what print() and the prompt of input() wrote, one entry per call
    invoked           \* the plugin functions invoked, with their arguments, in order

vars == <<document_text, full_name, behavior_data, doc_result, sanction_result,
          behavior_result, red_flags, combined, ncombine, pc, stdin, nread,
          stdout, invoked>>

\* Python's None (no string is a sequence holding the element "None").
None == <<"None">>

-----------------------------------------------------------------------------
(* String literals of the source.                                          *)

CrossMark == <<"U+274C">>
WarningSign == <<"U+26A0", "U+FE0F">>
KwForged == <<"f", "o", "r", "g", "e", "d">>
KwBotLike == <<"b", "o", "t", "-", "l", "i", "k", "e">>
KwUnusual == <<"u", "n", "u", "s", "u", "a", "l">>
JohnDoe == <<"J", "o", "h", "n", " ", "D", "o", "e">>
AliKhan == <<"A", "l", "i", " ", "K", "h", "a", "n">>
MsgDocInvalid == <<"U+274C", " ", "D", "o", "c", "u", "m", "e", "n", "t", " ", "i", "n", "v", "a", "l", "i", "d", ":", " ", "s", "u", "s", "p", "e", "c", "t", "e", "d", " ", "f", "o", "r", "g", "e", "r", "y", ".">>
MsgDocValid == <<"U+2705", " ", "D", "o", "c", "u", "m", "e", "n", "t", " ", "v", "a", "l", "i", "d", ".">>
MarkReject == <<"U+274C", " ">>
MarkOk == <<"U+2705", " ">>
TailFlagged == <<" ", "f", "l", "a", "g", "g", "e", "d", " ", "o", "n", " ", "s", "a", "n", "c", "t", "i", "o", "n", "s", " ", "l", "i", "s", "t", ".">>
TailClear == <<" ", "i", "s", " ", "c", "l", "e", "a", "r", ".">>
MsgBehaviorRisk == <<"U+26A0", "U+FE0F", " ", "B", "e", "h", "a", "v", "i", "o", "r", "a", "l", " ", "r", "i", "s", "k", " ", "d", "e", "t", "e", "c", "t", "e", "d", ".">>
MsgBehaviorNormal == <<"U+2705", " ", "B", "e", "h", "a", "v", "i", "o", "r", " ", "a", "p", "p", "e", "a", "r", "s", " ", "n", "o", "r", "m", "a", "l", ".">>
MsgHighRisk == <<"U+1F6A8", " ", "H", "i", "g", "h", " ", "R", "i", "s", "k", ":", " ", "E", "s", "c", "a", "l", "a", "t", "e", " ", "t", "o", " ", "m", "a", "n", "u", "a", "l", " ", "r", "e", "v", "i", "e", "w", ".">>
MsgLowRisk == <<"U+2705", " ", "L", "o", "w", " ", "R", "i", "s", "k", ":", " ", "A", "u", "t", "o", "-", "a", "p", "p", "r", "o", "v", "e", " ", "o", "n", "b", "o", "a", "r", "d", "i", "n", "g", ".">>
DemoDocument == <<"F", "o", "r", "g", "e", "d", " ", "n", "a", "t", "i", "o", "n", "a", "l", " ", "I", "D">>
DemoBehavior == <<"B", "o", "t", "-", "l", "i", "k", "e", " ", "i", "n", "p", "u", "t", " ", "p", "a", "t", "t", "e", "r", "n", " ", "d", "e", "t", "e", "c", "t", "e", "d">>
Banner == <<"K", "Y", "C", " ", "A", "s", "s", "i", "s", "t", "a", "n", "t", " ", "R", "e", "a", "d", "y", ".", " ", "T", "y", "p", "e", " ", "c", "u", "s", "t", "o", "m", "e", "r", " ", "i", "n", "f", "o", " ", "f", "o", "r", " ", "v", "e", "r", "i", "f", "i", "c", "a", "t", "i", "o", "n", ".", "U+000A", "P", "r", "e", "s", "s", " ", "E", "n", "t", "e", "r", " ", "t", "o", " ", "e", "x", "i", "t", ".">>
Prompt == <<"U", "s", "e", "r", ":", " ">>
SessionEnded == <<"S", "e", "s", "s", "i", "o", "n", " ", "e", "n", "d", "e", "d", ".">>
EvalHeader == <<"U+000A", "K", "Y", "C", " ", "E", "v", "a", "l", "u", "a", "t", "i", "o", "n", ":">>
Arrow == <<"U+27A1">>

-----------------------------------------------------------------------------
(* str.lower(), the `in` operator on strings, str.strip().                 *)

AsciiUpper == <<"A", "B", "C", "D", "E", "F", "G", "H", "I", "J", "K", "L", "M",
                "N", "O", "P", "Q", "R", "S", "T", "U", "V", "W", "X", "Y", "Z">>
AsciiLower == <<"a", "b", "c", "d", "e", "f", "g", "h", "i", "j", "k", "l", "m",
                "n", "o", "p", "q", "r", "s", "t", "u", "v", "w", "x", "y", "z">>

\* The lower case of one code point, a string of one or two code points:
\* lower() maps A-Z to a-z, U+212A (Kelvin sign) to "k" and U+0130 (capital I
\* with dot above) to "i" followed by U+0307; it leaves every other code point
\* of the alphabets used here unchanged.
LowerChar(c) ==
    IF \E i \in DOMAIN AsciiUpper : AsciiUpper[i] = c
    THEN <<AsciiLower[CHOOSE i \in DOMAIN AsciiUpper : AsciiUpper[i] = c]>>
    ELSE IF c = "U+212A" THEN <<"k">>
    ELSE IF c = "U+0130" THEN <<"i", "U+0307">>
    ELSE <<c>>

RECURSIVE lower(_)
lower(s) == IF s = <<>> THEN <<>> ELSE LowerChar(Head(s)) \o lower(Tail(s))

\* sub in s
Contains(sub, s) ==
    \E i \in 0..Len(s) :
        /\ i + Len(sub) <= Len(s)
        /\ SubSeq(s, i + 1, i + Len(sub)) = sub

Whitespace == {" ", "U+0009", "U+000A", "U+000D"}

RECURSIVE lstrip(_)
lstrip(s) == IF s # <<>> /\ Head(s) \in Whitespace THEN lstrip(Tail(s)) ELSE s

RECURSIVE rstrip(_)
rstrip(s) ==
    IF s # <<>> /\ s[Len(s)] \in Whitespace THEN rstrip(SubSeq(s, 1, Len(s) - 1)) ELSE s

strip(s) == rstrip(lstrip(s))

-----------------------------------------------------------------------------
(* KYCRiskPlugin                                                           *)

\* Variant: the text is searched as given, without lower().
validate_id_document_cased(text) ==
    IF Contains(KwForged, text) THEN MsgDocInvalid ELSE MsgDocValid

validate_id_document(text) ==
    IF Contains(KwForged, lower(text)) THEN MsgDocInvalid ELSE MsgDocValid

watchlist == <<JohnDoe, AliKhan>>

\* Variant: the name is compared without regard to case.
screen_against_sanctions_nocase(name) ==
    IF \E i \in DOMAIN watchlist : lower(watchlist[i]) = lower(name)
    THEN MarkReject \o name \o TailFlagged
    ELSE MarkOk \o name \o TailClear

screen_against_sanctions(name) ==
    IF \E i \in DOMAIN watchlist : watchlist[i] = name
    THEN MarkReject \o name \o TailFlagged
    ELSE MarkOk \o name \o TailClear

\* Variant: the second keyword is searched in the text as given.
assess_behavioral_risk_cased(data) ==
    IF Contains(KwBotLike, lower(data)) \/ Contains(KwUnusual, data)
    THEN MsgBehaviorRisk
    ELSE MsgBehaviorNormal

assess_behavioral_risk(data) ==
    IF Contains(KwBotLike, lower(data)) \/ Contains(KwUnusual, lower(data))
    THEN MsgBehaviorRisk
    ELSE MsgBehaviorNormal

\* Variant: only the cross mark escalates, the warning sign does not.
combine_risk_signals_rejects_only(id_status, sanctions_status, behavior_status) ==
    LET flags == <<id_status, sanctions_status, behavior_status>>
    IN  IF \E i \in DOMAIN flags : Contains(CrossMark, flags[i])
        THEN MsgHighRisk
        ELSE MsgLowRisk

combine_risk_signals(id_status, sanctions_status, behavior_status) ==
    LET flags == <<id_status, sanctions_status, behavior_status>>
    IN  IF \E i \in DOMAIN flags :
               Contains(CrossMark, flags[i]) \/ Contains(WarningSign, flags[i])
        THEN MsgHighRisk
        ELSE MsgLowRisk

-----------------------------------------------------------------------------
(* The arguments the functions are called with.  Every parameter is a      *)
(* Python str, so any string may arrive; the sets below hold the strings   *)
(* around each branch of the functions.                                    *)

\* Longest run of extra characters put before and after a keyword or name.
MaxPad == 1
\* Most invocations of combine_risk_signals in one behaviour.
MaxCombine == 2
\* Most lines the user types in one session.
MaxLines == 3

ValidPassport == <<"V", "a", "l", "i", "d", " ", "p", "a", "s", "s", "p", "o", "r", "t">>
JaneSmith == <<"J", "a", "n", "e", " ", "S", "m", "i", "t", "h">>
NormalTyping == <<"N", "o", "r", "m", "a", "l", " ", "t", "y", "p", "i", "n", "g", " ", "s", "p", "e", "e", "d">>

\* The upper- and lower-case forms of a code point: itself, its ASCII
\* counterpart of the other case and, for k, the Kelvin sign U+212A (an
\* upper-case letter whose lower case is k).
CaseForms(c) ==
    {c} \cup {AsciiUpper[i] : i \in {j \in DOMAIN AsciiLower : AsciiLower[j] = c}}
        \cup {AsciiLower[i] : i \in {j \in DOMAIN AsciiUpper : AsciiUpper[j] = c}}
        \cup (IF c \in {"k", "K"} THEN {"U+212A"} ELSE {})

\* Every spelling of w in a mix of upper and lower case.
RECURSIVE CaseVariants(_)
CaseVariants(w) ==
    IF w = <<>> THEN {<<>>}
    ELSE {<<c>> \o r : c \in CaseForms(Head(w)), r \in CaseVariants(Tail(w))}

DeleteAt(w, i) == SubSeq(w, 1, i - 1) \o SubSeq(w, i + 1, Len(w))
ReplaceAt(w, i, c) == [w EXCEPT ![i] = c]

\* w with every letter in upper case.
AllUpper(w) ==
    [i \in DOMAIN w |->
        IF \E j \in DOMAIN AsciiLower : AsciiLower[j] = w[i]
        THEN AsciiUpper[CHOOSE j \in DOMAIN AsciiLower : AsciiLower[j] = w[i]]
        ELSE w[i]]

\* Strings one edit away from w: a character dropped, or replaced by a
\* character that is no case form of it.
NearMisses(w) ==
    {DeleteAt(w, i) : i \in DOMAIN w}
        \cup {ReplaceAt(w, i, c) : i \in DOMAIN w, c \in {"x", " ", "U+0130", "U+017F"}}

\* The strings of length at most n over the characters of chars.
RECURSIVE Pads(_, _)
Pads(chars, n) ==
    IF n = 0 THEN {<<>>}
    ELSE {<<>>} \cup {<<c>> \o r : c \in chars, r \in Pads(chars, n - 1)}

\* Text around a keyword: its case variants and near misses, with up to
\* MaxPad characters before and after (a space, or the keyword's own first
\* or last letter, which can complete a near miss).
TextsAround(w) ==
    {p \o core \o q :
        p \in Pads({" ", w[1]}, MaxPad),
        q \in Pads({" ", w[Len(w)]}, MaxPad),
        core \in CaseVariants(w) \cup NearMisses(w) \cup NearMisses(AllUpper(w))}

DocTexts ==
    TextsAround(KwForged) \cup {<<>>, DemoDocument, ValidPassport, MsgDocInvalid}

BehaviorTexts ==
    TextsAround(KwBotLike) \cup TextsAround(KwUnusual)
        \cup {<<>>, DemoBehavior, NormalTyping, MsgBehaviorRisk}

Names ==
    {p \o core \o q :
        p \in Pads({" ", "U+0009"}, MaxPad),
        q \in Pads({" ", "r"}, MaxPad),
        core \in {JohnDoe, AliKhan, JaneSmith, <<>>, lower(JohnDoe), AllUpper(JohnDoe),
                  lower(AliKhan), AllUpper(AliKhan), CrossMark, WarningSign}
                 \cup NearMisses(JohnDoe) \cup NearMisses(AliKhan)}

\* The arguments of the evaluation round: the two scenarios of the demo,
\* other spellings, and names that hold the code points of the status marks.
DocInputs == {DemoDocument, ValidPassport, <<>>, AllUpper(KwForged)}

NameInputs ==
    {JohnDoe, AliKhan, JaneSmith, lower(JohnDoe), CrossMark, WarningSign, <<"U+26A0">>}

BehaviorInputs == {DemoBehavior, NormalTyping, <<>>, AllUpper(KwUnusual)}

-----------------------------------------------------------------------------
(* Invocations of the plugin functions (kernel.add_plugin, main.py:29,     *)
(* makes the four callable by name; .invoke(...) calls the function and    *)
(* .return_value is what it returned).                                     *)

Init ==
    /\ document_text = None
    /\ full_name = None
    /\ behavior_data = None
    /\ doc_result = None
    /\ sanction_result = None
    /\ behavior_result = None
    /\ red_flags = None
    /\ combined = None
    /\ ncombine = 0
    /\ pc = "start"
    /\ stdin = <<>>
    /\ nread = 0
    /\ stdout = <<>>
    /\ invoked = <<>>

Idle ==
    /\ doc_result = None
    /\ sanction_result = None
    /\ behavior_result = None

ValidateIdDocument(texts) ==
    /\ doc_result = None
    /\ combined = None
    /\ \E text \in texts :
        /\ document_text' = text
        /\ doc_result' = validate_id_document(text)
    /\ UNCHANGED <<full_name, behavior_data, sanction_result, behavior_result,
                   red_flags, combined, ncombine, pc, stdin, nread, stdout, invoked>>

ScreenAgainstSanctions(names) ==
    /\ sanction_result = None
    /\ combined = None
    /\ \E name \in names :
        /\ full_name' = name
        /\ sanction_result' = screen_against_sanctions(name)
    /\ UNCHANGED <<document_text, behavior_data, doc_result, behavior_result,
                   red_flags, combined, ncombine, pc, stdin, nread, stdout, invoked>>

AssessBehavioralRisk(texts) ==
    /\ behavior_result = None
    /\ combined = None
    /\ \E data \in texts :
        /\ behavior_data' = data
        /\ behavior_result' = assess_behavioral_risk(data)
    /\ UNCHANGED <<document_text, full_name, doc_result, sanction_result,
                   red_flags, combined, ncombine, pc, stdin, nread, stdout, invoked>>

\* main.py:50-54: the three results of the round are combined.
CombineRound ==
    /\ doc_result # None
    /\ sanction_result # None
    /\ behavior_result # None
    /\ combined = None
    /\ red_flags' = <<doc_result, sanction_result, behavior_result>>
    /\ combined' = combine_risk_signals(doc_result, sanction_result, behavior_result)
    /\ ncombine' = ncombine + 1
    /\ UNCHANGED <<document_text, full_name, behavior_data, doc_result,
                   sanction_result, behavior_result, pc, stdin, nread, stdout, invoked>>

\* The RiskStatus values produced so far.
Produced == {doc_result, sanction_result, behavior_result, combined} \ {None}

\* combine_risk_signals takes any three RiskStatus values: the host invokes
\* it again on statuses produced earlier, its own result among them.
CombineAgain ==
    /\ combined # None
    /\ ncombine < MaxCombine
    /\ \E a \in Produced, b \in Produced, c \in Produced :
        /\ red_flags' = <<a, b, c>>
        /\ combined' = combine_risk_signals(a, b, c)
    /\ ncombine' = ncombine + 1
    /\ UNCHANGED <<document_text, full_name, behavior_data, doc_result,
                   sanction_result, behavior_result, pc, stdin, nread, stdout, invoked>>

EvalValidate == ValidateIdDocument(DocInputs)
EvalScreen == ScreenAgainstSanctions(NameInputs)
EvalAssess == AssessBehavioralRisk(BehaviorInputs)

Next == EvalValidate \/ EvalScreen \/ EvalAssess \/ CombineRound \/ CombineAgain

Spec == Init /\ [][Next]_vars

\* One call of one evaluator on one string.
TextValidate == Idle /\ ValidateIdDocument(DocTexts)
TextScreen == Idle /\ ScreenAgainstSanctions(Names)
TextAssess == Idle /\ AssessBehavioralRisk(BehaviorTexts)

TextNext == TextValidate \/ TextScreen \/ TextAssess

TextSpec == Init /\ [][TextNext]_vars

-----------------------------------------------------------------------------
(* main(): the chat loop of the demo.                                      *)

\* What the user may type on one line (input() returns it without its
\* newline): nothing, white space only, or some customer information.
Lines ==
    {<<>>, <<" ", "U+0009">>, JaneSmith, <<" ">> \o ValidPassport \o <<" ">>,
     lower(KwForged)}

\* The sequences of at most n lines.
RECURSIVE LineSeqs(_)
LineSeqs(n) ==
    IF n = 0 THEN {<<>>}
    ELSE {<<>>} \cup {<<l>> \o r : l \in Lines, r \in LineSeqs(n - 1)}

DemoInit ==
    /\ document_text = None
    /\ full_name = None
    /\ behavior_data = None
    /\ doc_result = None
    /\ sanction_result = None
    /\ behavior_result = None
    /\ red_flags = None
    /\ combined = None
    /\ ncombine = 0
    /\ pc = "start"
    /\ stdin \in LineSeqs(MaxLines)
    /\ nread = 0
    /\ stdout = <<>>
    /\ invoked = <<>>

\* main.py:33-35
Start ==
    /\ pc = "start"
    /\ stdout' = Append(stdout, Banner)
    /\ pc' = "loop"
    /\ UNCHANGED <<document_text, full_name, behavior_data, doc_result, sanction_result,
                   behavior_result, red_flags, combined, ncombine, stdin, nread, invoked>>

\* Variant: the round evaluates what the user typed.
RoundArgsFromInput(user_input) == <<user_input, user_input, user_input>>

\* main.py:46-48: the arguments of the round, given the stripped line.
RoundArgs(user_input) == <<DemoDocument, JohnDoe, DemoBehavior>>

\* A function of the plugin invoked with args.
Call(name, args) == [function |-> name, args |-> args]

\* main.py:38-41: the line is empty once stripped.
ReadBlank ==
    /\ pc = "loop"
    /\ nread < Len(stdin)
    /\ strip(stdin[nread + 1]) = <<>>
    /\ nread' = nread + 1
    /\ stdout' = stdout \o <<Prompt, SessionEnded>>
    /\ pc' = "done"
    /\ UNCHANGED <<document_text, full_name, behavior_data, doc_result, sanction_result,
                   behavior_result, red_flags, combined, ncombine, stdin, invoked>>

\* main.py:38-61: any other line starts one evaluation round.
ReadRound ==
    /\ pc = "loop"
    /\ nread < Len(stdin)
    /\ \E user_input \in {strip(stdin[nread + 1])} :
        /\ user_input # <<>>
        /\ \E args \in {RoundArgs(user_input)} :
           \E doc \in {validate_id_document(args[1])} :
           \E sanction \in {screen_against_sanctions(args[2])} :
           \E behavior \in {assess_behavioral_risk(args[3])} :
           \E comb \in {combine_risk_signals(doc, sanction, behavior)} :
               /\ document_text' = args[1]
               /\ full_name' = args[2]
               /\ behavior_data' = args[3]
               /\ doc_result' = doc
               /\ sanction_result' = sanction
               /\ behavior_result' = behavior
               /\ red_flags' = <<doc, sanction, behavior>>
               /\ combined' = comb
               /\ invoked' = invoked \o
                      <<Call("validate_id_document", <<args[1]>>),
                        Call("screen_against_sanctions", <<args[2]>>),
                        Call("assess_behavioral_risk", <<args[3]>>),
                        Call("combine_risk_signals", <<doc, sanction, behavior>>)>>
               /\ stdout' = stdout \o
                      <<Prompt, EvalHeader, doc, sanction, behavior,
                        Arrow \o <<" ">> \o comb, <<>>>>
    /\ ncombine' = ncombine + 1
    /\ nread' = nread + 1
    /\ UNCHANGED <<pc, stdin>>

\* main.py:38: the input has ended; input() raises EOFError, which nothing
\* catches.
ReadEOF ==
    /\ pc = "loop"
    /\ nread = Len(stdin)
    /\ stdout' = Append(stdout, Prompt)
    /\ pc' = "eof"
    /\ UNCHANGED <<document_text, full_name, behavior_data, doc_result, sanction_result,
                   behavior_result, red_flags, combined, ncombine, stdin, nread, invoked>>

DemoNext == Start \/ ReadBlank \/ ReadRound \/ ReadEOF

DemoSpec == DemoInit /\ [][DemoNext]_vars

-----------------------------------------------------------------------------
(* Vocabulary of the properties.                                           *)

\* The severity a status string carries: its leading mark.
Severity(status) ==
    IF status = <<>> THEN "NONE"
    ELSE IF Head(status) = "U+2705" THEN "OK"
    ELSE IF Len(status) >= 2 /\ SubSeq(status, 1, 2) = WarningSign THEN "WARNING"
    ELSE IF Head(status) \in {"U+274C", "U+1F6A8"} THEN "REJECT"
    ELSE "NONE"

\* OK < WARNING < REJECT
Rank(severity) ==
    CASE severity = "OK" -> 0
      [] severity = "WARNING" -> 1
      [] severity = "REJECT" -> 2

MaxRank(flags) ==
    CHOOSE r \in {Rank(Severity(flags[i])) : i \in DOMAIN flags} :
        \A i \in DOMAIN flags : Rank(Severity(flags[i])) <= r

\* The message of a status string: what follows the mark and the space.
Message(status) ==
    IF Severity(status) = "WARNING" THEN SubSeq(status, 4, Len(status))
    ELSE SubSeq(status, 3, Len(status))

\* text holds w somewhere, each letter in either case.
HasCaseVariant(w, text) ==
    \E i \in 1..Len(text) :
        /\ i + Len(w) - 1 <= Len(text)
        /\ \A j \in DOMAIN w : text[i + j - 1] \in CaseForms(w[j])

\* Every status the three evaluators return on the arguments of the round.
EvaluatorStatuses ==
    {validate_id_document(t) : t \in DocInputs}
        \cup {screen_against_sanctions(n) : n \in NameInputs}
        \cup {assess_behavioral_risk(b) : b \in BehaviorInputs}

\* combine_risk_signals has run on three results of the evaluators.
CombinedEvaluators ==
    /\ combined # None
    /\ \A i \in DOMAIN red_flags : red_flags[i] \in EvaluatorStatuses

Escalating(status) == Severity(status) \in {"WARNING", "REJECT"}

-----------------------------------------------------------------------------
(* Properties.                                                             *)

\* C1: on every triple of results the three evaluators can produce,
\* combine_risk_signals returns "High Risk: Escalate to manual review." if and
\* only if at least one of the three has severity WARNING or REJECT, and
\* "Low Risk: Auto-approve onboarding." when all three have severity OK.
C1_EscalatesIffAnyNonOk ==
    CombinedEvaluators =>
        /\ combined = MsgHighRisk <=> \E i \in DOMAIN red_flags : Escalating(red_flags[i])
        /\ (\A i \in DOMAIN red_flags : Severity(red_flags[i]) = "OK")
               => combined = MsgLowRisk

\* The message of the status holds neither mark combine_risk_signals
\* searches for.
MarkFree(status) ==
    /\ ~Contains(CrossMark, Message(status))
    /\ ~Contains(WarningSign, Message(status))

RoundDone ==
    /\ combined # None
    /\ ncombine = 1
    /\ red_flags = <<doc_result, sanction_result, behavior_result>>

\* C3: for every document text, full name and behaviour text, if the three
\* evaluators all return OK the combined result is "Low Risk: Auto-approve
\* onboarding.", and if at least one returns REJECT or WARNING it is "High
\* Risk: Escalate to manual review."; the two scenarios of the demo give Low
\* Risk, and REJECT, REJECT, WARNING and High Risk.
C3_EndToEnd ==
    RoundDone =>
        /\ (/\ Severity(doc_result) = "OK"
            /\ Severity(sanction_result) = "OK"
            /\ Severity(behavior_result) = "OK") => combined = MsgLowRisk
        /\ (\/ Escalating(doc_result)
            \/ Escalating(sanction_result)
            \/ Escalating(behavior_result)) => combined = MsgHighRisk
        /\ (/\ document_text = ValidPassport
            /\ full_name = JaneSmith
            /\ behavior_data = NormalTyping) => combined = MsgLowRisk
        /\ (/\ document_text = DemoDocument
            /\ full_name = JohnDoe
            /\ behavior_data = DemoBehavior)
               => /\ Severity(doc_result) = "REJECT"
                  /\ Severity(sanction_result) = "REJECT"
                  /\ Severity(behavior_result) = "WARNING"
                  /\ combined = MsgHighRisk

\* C4: screen_against_sanctions(fullName) returns REJECT "{fullName} flagged
\* on sanctions list." if and only if fullName is exactly "John Doe" or "Ali
\* Khan"; for every other string (another case, white space around it, the
\* name inside a longer string) it returns OK "{fullName} is clear.".
C4_ExactWatchlistMatch ==
    sanction_result # None =>
        IF full_name \in {JohnDoe, AliKhan}
        THEN /\ Severity(sanction_result) = "REJECT"
             /\ Message(sanction_result) = full_name \o TailFlagged
        ELSE /\ Severity(sanction_result) = "OK"
             /\ Message(sanction_result) = full_name \o TailClear

\* A name that holds a watchlist name in another case, or inside more text,
\* has been screened and is clear.
C4_Witness ==
    /\ sanction_result # None
    /\ full_name \notin {JohnDoe, AliKhan}
    /\ HasCaseVariant(JohnDoe, full_name)
    /\ Severity(sanction_result) = "OK"

\* C5: validate_id_document(text) returns REJECT "Document invalid: suspected
\* forgery." if and only if text holds "forged" in any mix of upper and lower
\* case; otherwise (the empty string too) OK "Document valid.".
C5_ForgedAnyCase ==
    doc_result # None =>
        IF HasCaseVariant(KwForged, document_text)
        THEN doc_result = MsgDocInvalid /\ Severity(doc_result) = "REJECT"
        ELSE doc_result = MsgDocValid /\ Severity(doc_result) = "OK"

\* A text holding "forged" in mixed case, not in lower case, was rejected.
C5_Witness ==
    /\ doc_result = MsgDocInvalid
    /\ ~Contains(KwForged, document_text)
    /\ ~Contains(AllUpper(KwForged), document_text)

\* C6: assess_behavioral_risk(text) returns WARNING "Behavioral risk
\* detected." if and only if text holds "bot-like" or "unusual" in any mix of
\* upper and lower case; otherwise (the empty string too) OK "Behavior
\* appears normal."; it never returns REJECT.
C6_BehaviorKeywordsAnyCase ==
    behavior_result # None =>
        /\ IF \/ HasCaseVariant(KwBotLike, behavior_data)
              \/ HasCaseVariant(KwUnusual, behavior_data)
           THEN behavior_result = MsgBehaviorRisk /\ Severity(behavior_result) = "WARNING"
           ELSE behavior_result = MsgBehaviorNormal /\ Severity(behavior_result) = "OK"
        /\ Severity(behavior_result) # "REJECT"

\* A text holding "unusual" in mixed case, not in lower case, gave WARNING.
C6_Witness ==
    /\ behavior_result = MsgBehaviorRisk
    /\ HasCaseVariant(KwUnusual, behavior_data)
    /\ ~Contains(KwUnusual, behavior_data)
    /\ ~Contains(AllUpper(KwUnusual), behavior_data)

IsBlank(line) == \A j \in DOMAIN line : line[j] \in Whitespace

\* xs repeated n times.
RECURSIVE Repeat(_, _)
Repeat(xs, n) == IF n = 0 THEN <<>> ELSE xs \o Repeat(xs, n - 1)

\* What one round prints after the prompt, and what it invokes.
ExpectedRound ==
    <<EvalHeader,
      MsgDocInvalid,
      <<"U+274C", " ">> \o JohnDoe \o TailFlagged,
      MsgBehaviorRisk,
      <<"U+27A1", " ">> \o MsgHighRisk,
      <<>>>>

ExpectedCalls ==
    <<[function |-> "validate_id_document", args |-> <<DemoDocument>>],
      [function |-> "screen_against_sanctions", args |-> <<JohnDoe>>],
      [function |-> "assess_behavioral_risk", args |-> <<DemoBehavior>>],
      [function |-> "combine_risk_signals",
       args |-> <<MsgDocInvalid, <<"U+274C", " ">> \o JohnDoe \o TailFlagged,
                  MsgBehaviorRisk>>]>>

\* C8: the loop uses a line only to decide whether to stop.  The first line
\* that is blank once stripped prints "Session ended." and ends the loop, with
\* no evaluation after it; every line before it runs exactly one round, which
\* invokes the four functions in order on the same hardcoded arguments and
\* prints the same lines whatever was typed and whatever came before.
C8_LoopIgnoresInput ==
    pc # "start" =>
        LET rounds == IF pc = "done" THEN nread - 1 ELSE nread
        IN  /\ \A i \in 1..rounds : ~IsBlank(stdin[i])
            /\ pc = "done" => nread >= 1 /\ IsBlank(stdin[nread])
            /\ pc = "done" => ~ENABLED DemoNext
            /\ pc = "loop" /\ nread < Len(stdin) => ENABLED DemoNext
            /\ invoked = Repeat(ExpectedCalls, rounds)
            /\ stdout = <<Banner>> \o Repeat(<<Prompt>> \o ExpectedRound, rounds)
                   \o (CASE pc = "done" -> <<Prompt, SessionEnded>>
                         [] pc = "eof" -> <<Prompt>>
                         [] pc = "loop" -> <<>>)

\* Two rounds on two different lines, then a blank line ended the session.
C8_Witness ==
    /\ pc = "done"
    /\ nread = 3
    /\ strip(stdin[1]) # strip(stdin[2])
    /\ Len(invoked) = 8

\* C10: combine_risk_signals escalates on a REJECT-level status it produced
\* itself: with its own "High Risk: Escalate to manual review." in any of the
\* three positions, whatever the other two, the result is again High Risk.
C10_EscalatesOnOwnResult ==
    (combined # None /\ \E i \in DOMAIN red_flags : red_flags[i] = MsgHighRisk)
        => combined = MsgHighRisk

====
